---- MODULE Spec2Model ----
(***************************************************************************)
(* Anonymous Feedback Wall: the data store with its row policies           *)
(* (supabase migrations), and the three views that talk to it: the         *)
(* page-management view (FeedbackPages), the public submission view        *)
(* (PublicFeedback) and the feedback-review view (ViewFeedback).           *)
(*                                                                         *)
(* Text (titles, slugs, messages) is a sequence of one-character strings.  *)
(***************************************************************************)
EXTENDS Integers, Sequences, FiniteSets, TLC

\* ------------------------------------------------------------------ bounds
MaxPages == 2        \* feedback_pages rows ever inserted
MaxFeedback == 2     \* feedback rows ever inserted
MaxInFlight == 2     \* requests one view instance has in flight
MaxLen == 3          \* length of the titles given to generateSlug

Users == {"u1", "u2"}            \* rows of auth.users
Anon == "anon"                   \* a caller without a session
Callers == Users \cup {Anon}
NULL == "null"                   \* SQL NULL / JS null / undefined
NoRow == [id |-> NULL]           \* no row: a null page, so that page?.id is NULL

\* gen_random_uuid(): the n-th id a table hands out
PageUuid(n) == <<"p1", "p2", "p3", "p4">>[n]
FeedbackUuid(n) == <<"f1", "f2", "f3", "f4">>[n]
PageIds == {PageUuid(n) : n \in 1..MaxPages}

Slugs == {<<"a">>, <<"b">>}
Titles == {<<" ">>, <<"A">>}
Messages == {<< >>, <<" ">>, <<" ", "m">>}

VARIABLES
    feedback_pages,  \* table public.feedback_pages: set of rows
    feedback,        \* table public.feedback: set of rows
    now,             \* the store's clock, source of created_at
    pageSeq,         \* number of feedback_pages ids handed out
    feedbackSeq,     \* number of feedback ids handed out
    lastRead,        \* answer to a caller's direct SELECT, until the next write
    mv,              \* page-management view instance (FeedbackPages)
    mvReqs,          \* its requests in flight
    pv,              \* public submission view instance (PublicFeedback)
    pvReqs,          \* its requests in flight
    rv,              \* feedback-review view instance (ViewFeedback)
    rvReqs,          \* its requests in flight
    toast            \* the latest notification raised by a view

storeVars == <<feedback_pages, feedback, now, pageSeq, feedbackSeq>>
mvVars == <<mv, mvReqs>>
pvVars == <<pv, pvReqs>>
rvVars == <<rv, rvReqs>>
vars == <<feedback_pages, feedback, now, pageSeq, feedbackSeq, lastRead,
          mv, mvReqs, pv, pvReqs, rv, rvReqs, toast>>

\* ------------------------------------------------------------------- text
IsSpace(ch) == ch \in {" ", "\t", "\n"}

RECURSIVE TrimStart(_)
TrimStart(s) ==
    IF s # << >> /\ IsSpace(Head(s)) THEN TrimStart(Tail(s)) ELSE s

RECURSIVE TrimEnd(_)
TrimEnd(s) ==
    IF s # << >> /\ IsSpace(s[Len(s)]) THEN TrimEnd(SubSeq(s, 1, Len(s) - 1))
    ELSE s

\* String.prototype.trim
trim(s) == TrimEnd(TrimStart(s))

\* ------------------------------------------------------------ row policies
\* auth.uid(): the caller's user id, NULL without a session
auth_uid(c) == IF c \in Users THEN c ELSE NULL

\* SQL '=' is not true when an operand is NULL
SqlEq(a, b) == a # NULL /\ b # NULL /\ a = b

\* "Users can view their own feedback pages"
PolicyViewOwnPages(c, row) == SqlEq(auth_uid(c), row.user_id)

\* "Anyone can view active feedback pages"
PolicyViewActivePages(c, row) == row.is_active = TRUE

\* permissive SELECT policies of feedback_pages are OR-ed
PagesSelectUsing(c, row) ==
    PolicyViewOwnPages(c, row) \/ PolicyViewActivePages(c, row)

\* "Users can create their own feedback pages"
PagesInsertCheck(c, row) == SqlEq(auth_uid(c), row.user_id)

\* "Users can update their own feedback pages" (USING, and WITH CHECK by default)
PagesUpdateUsing(c, row) == SqlEq(auth_uid(c), row.user_id)

\* "Users can delete their own feedback pages"
PagesDeleteUsing(c, row) == SqlEq(auth_uid(c), row.user_id)

\* SELECT * FROM feedback_pages as caller c
SelectPages(c) == {r \in feedback_pages : PagesSelectUsing(c, r)}

\* SELECT id FROM public.feedback_pages WHERE is_active = true  (as caller c)
ActivePageIds(c) == {r.id : r \in {x \in SelectPages(c) : x.is_active = TRUE}}

\* the dropped policy "Allow read for all"
FeedbackSelectAll(c, row) == TRUE

\* "Anyone can view feedback for active pages"
FeedbackSelectUsing(c, row) == row.feedback_page_id \in ActivePageIds(c)

\* the dropped policy "Allow insert for all"
FeedbackInsertAll(c, row) == TRUE

\* "Anyone can create feedback for active pages"
FeedbackInsertCheck(c, row) == row.feedback_page_id \in ActivePageIds(c)

\* SELECT * FROM feedback as caller c
SelectFeedback(c) == {r \in feedback : FeedbackSelectUsing(c, r)}

\* ------------------------------------------------------- store operations
\* slug TEXT NOT NULL, without UNIQUE
SlugNotUnique(slug, exceptId) == TRUE

\* slug TEXT NOT NULL UNIQUE
SlugFree(slug, exceptId) ==
    \A r \in feedback_pages : r.id = exceptId \/ r.slug # slug

\* INSERT INTO feedback_pages as caller c: does the store accept the row?
InsertPageOk(c, req) ==
    /\ req.user_id \in Users              \* NOT NULL REFERENCES auth.users(id)
    /\ PagesInsertCheck(c, req)
    /\ SlugFree(req.slug, NULL)

\* the inserted row: id and created_at are column defaults
InsertPageRow(req, t) ==
    [id |-> PageUuid(pageSeq + 1), user_id |-> req.user_id,
     title |-> req.title, description |-> req.description,
     slug |-> req.slug, is_active |-> req.is_active, created_at |-> t]

\* an accepted insert, at store time t
InsertPage(c, req, t) ==
    /\ InsertPageOk(c, req)
    /\ feedback_pages' = feedback_pages \cup {InsertPageRow(req, t)}
    /\ now' = t
    /\ pageSeq' = pageSeq + 1
    /\ UNCHANGED <<feedback, feedbackSeq>>

\* INSERT INTO feedback as caller c: does the store accept the row?
InsertFeedbackOk(c, req) == FeedbackInsertCheck(c, req)

InsertFeedbackRow(req, t) ==
    [id |-> FeedbackUuid(feedbackSeq + 1), message |-> req.message,
     feedback_page_id |-> req.feedback_page_id, created_at |-> t]

InsertFeedback(c, req, t) ==
    /\ InsertFeedbackOk(c, req)
    /\ feedback' = feedback \cup {InsertFeedbackRow(req, t)}
    /\ now' = t
    /\ feedbackSeq' = feedbackSeq + 1
    /\ UNCHANGED <<feedback_pages, pageSeq>>

\* UPDATE feedback_pages SET ... WHERE id = :id  as caller c
UpdatePageOk(c, old, new) ==
    /\ PagesSelectUsing(c, old)
    /\ PagesUpdateUsing(c, old)
    /\ PagesUpdateUsing(c, new)           \* WITH CHECK defaults to USING
    /\ SlugFree(new.slug, old.id)

UpdatePage(c, old, new) ==
    /\ UpdatePageOk(c, old, new)
    /\ new # old
    /\ feedback_pages' = (feedback_pages \ {old}) \cup {new}
    /\ UNCHANGED <<feedback, now, pageSeq, feedbackSeq>>

\* the reference without ON DELETE CASCADE, the page delete going through
DeleteKeepsFeedback(ids) == feedback

\* feedback_page_id ... REFERENCES public.feedback_pages(id) ON DELETE CASCADE
CascadeDelete(ids) == {f \in feedback : f.feedback_page_id \notin ids}

\* DELETE FROM feedback_pages WHERE id = :id  as caller c
DeletePageOk(c, old) ==
    /\ PagesSelectUsing(c, old)
    /\ PagesDeleteUsing(c, old)

DeletePage(c, old) ==
    /\ DeletePageOk(c, old)
    /\ feedback_pages' = feedback_pages \ {old}
    /\ feedback' = CascadeDelete({old.id})
    /\ UNCHANGED <<now, pageSeq, feedbackSeq>>

\* ------------------------------------- direct use of the store by a caller
NoRead == [caller |-> Anon, table |-> NULL, rows |-> {}]

PageRequests ==
    [user_id : Users \cup {NULL}, title : {<<"A">>}, description : {<< >>},
     slug : Slugs, is_active : BOOLEAN]

FeedbackRequests ==
    [message : {<<"m">>}, feedback_page_id : PageIds \cup {NULL}]

StoreInsertPage ==
    \E c \in Callers, req \in PageRequests :
        /\ pageSeq < MaxPages
        /\ InsertPage(c, req, now + 1)
        /\ lastRead' = NoRead
        /\ UNCHANGED <<mv, mvReqs, pv, pvReqs, rv, rvReqs, toast>>

StoreUpdatePage ==
    \E c \in Callers, old \in feedback_pages, u \in Users, s \in Slugs,
       b \in BOOLEAN :
        /\ UpdatePage(c, old,
                      [old EXCEPT !.user_id = u, !.slug = s, !.is_active = b])
        /\ lastRead' = NoRead
        /\ UNCHANGED <<mv, mvReqs, pv, pvReqs, rv, rvReqs, toast>>

StoreDeletePage ==
    \E c \in Callers, old \in feedback_pages :
        /\ DeletePage(c, old)
        /\ lastRead' = NoRead
        /\ UNCHANGED <<mv, mvReqs, pv, pvReqs, rv, rvReqs, toast>>

StoreInsertFeedback ==
    \E c \in Callers, req \in FeedbackRequests :
        /\ feedbackSeq < MaxFeedback
        /\ InsertFeedback(c, req, now + 1)
        /\ lastRead' = NoRead
        /\ UNCHANGED <<mv, mvReqs, pv, pvReqs, rv, rvReqs, toast>>

StoreSelectPages ==
    \E c \in Callers :
        /\ lastRead' = [caller |-> c, table |-> "feedback_pages",
                        rows |-> SelectPages(c)]
        /\ UNCHANGED <<storeVars, mv, mvReqs, pv, pvReqs, rv, rvReqs, toast>>

StoreSelectFeedback ==
    \E c \in Callers :
        /\ lastRead' = [caller |-> c, table |-> "feedback",
                        rows |-> SelectFeedback(c)]
        /\ UNCHANGED <<storeVars, mv, mvReqs, pv, pvReqs, rv, rvReqs, toast>>

\* ------------------------------------------------------------- requests
\* a request of a view: sent, then answered by the store (ok / err with its
\* rows), then delivered to the code after the await
Request(n, kind, req) ==
    [n |-> n, kind |-> kind, phase |-> "sent", req |-> req, data |-> << >>]

Answered(r, phase, data) == [r EXCEPT !.phase = phase, !.data = data]

FreeSlots(reqs) == {n \in 1..MaxInFlight : \A r \in reqs : r.n # n}

FreeSlot(reqs) == CHOOSE n \in FreeSlots(reqs) : \A m \in FreeSlots(reqs) : n <= m

\* .order('created_at', { ascending: true })
OrderByCreatedAtAsc(rows) ==
    {q \in [1..Cardinality(rows) -> rows] :
        /\ \A i, k \in DOMAIN q : i # k => q[i] # q[k]
        /\ \A i, k \in DOMAIN q : i < k => q[i].created_at <= q[k].created_at}

\* .order('created_at', { ascending: false }): the orders the store may return
OrderByCreatedAtDesc(rows) ==
    {q \in [1..Cardinality(rows) -> rows] :
        /\ \A i, k \in DOMAIN q : i # k => q[i] # q[k]
        /\ \A i, k \in DOMAIN q : i < k => q[i].created_at >= q[k].created_at}

Range(q) == {q[i] : i \in DOMAIN q}

\* ------------------------------------ page-management view (FeedbackPages)
ToastLoadPagesFailed == "Failed to load feedback pages"
ToastTitleRequired == "Title is required"
ToastPageCreated == "Feedback page created successfully"
ToastCreateFailed == "Failed to create feedback page"

UpperCase == <<"A", "B", "C", "D", "E", "F", "G", "H", "I", "J", "K", "L", "M",
               "N", "O", "P", "Q", "R", "S", "T", "U", "V", "W", "X", "Y", "Z">>
LowerCase == <<"a", "b", "c", "d", "e", "f", "g", "h", "i", "j", "k", "l", "m",
               "n", "o", "p", "q", "r", "s", "t", "u", "v", "w", "x", "y", "z">>
Digits == {"0", "1", "2", "3", "4", "5", "6", "7", "8", "9"}

\* String.prototype.toLowerCase
toLowerCase(s) ==
    [i \in 1..Len(s) |->
        IF \E k \in DOMAIN UpperCase : UpperCase[k] = s[i]
        THEN LowerCase[CHOOSE k \in DOMAIN UpperCase : UpperCase[k] = s[i]]
        ELSE s[i]]

\* /[^a-z0-9\s-]/ does not match ch
SlugChar(ch) ==
    \/ \E k \in DOMAIN LowerCase : LowerCase[k] = ch
    \/ ch \in Digits
    \/ IsSpace(ch)
    \/ ch = "-"

\* .replace(/[^a-z0-9\s-]/g, '')
StripOther(s) == SelectSeq(s, SlugChar)

\* .replace(/\s+/g, '-')
RECURSIVE SpacesToHyphen(_)
SpacesToHyphen(s) ==
    IF s = << >> THEN << >>
    ELSE IF IsSpace(Head(s)) THEN <<"-">> \o SpacesToHyphen(TrimStart(s))
    ELSE <<Head(s)>> \o SpacesToHyphen(Tail(s))

\* .replace(/-+/g, '-')
RECURSIVE CollapseHyphens(_)
CollapseHyphens(s) ==
    IF s = << >> THEN << >>
    ELSE IF Head(s) = "-" /\ Len(s) > 1 /\ s[2] = "-"
         THEN CollapseHyphens(Tail(s))
    ELSE <<Head(s)>> \o CollapseHyphens(Tail(s))

\* generateSlug with the hyphen runs collapsed before the whitespace runs
\* are replaced
generateSlugCollapseFirst(title) ==
    trim(SpacesToHyphen(CollapseHyphens(StripOther(toLowerCase(title)))))

generateSlug(title) ==
    trim(CollapseHyphens(SpacesToHyphen(StripOther(toLowerCase(title)))))

EmptyForm == [title |-> << >>, description |-> << >>, slug |-> << >>]

mvInit ==
    [mounted |-> FALSE, user |-> NULL, pages |-> << >>, loading |-> TRUE,
     showCreateForm |-> FALSE, formData |-> EmptyForm]

\* the list and the controls are rendered (not the "Loading..." screen)
MvRendered == mv.mounted /\ ~mv.loading

\* the component mounts for a signed-in caller; useEffect calls fetchPages
MvMount(c) ==
    /\ ~mv.mounted
    /\ mv' = [mvInit EXCEPT !.mounted = TRUE, !.user = c]
    /\ mvReqs' = {Request(1, "fetch", [table |-> "feedback_pages"])}
    /\ UNCHANGED <<storeVars, lastRead, pv, pvReqs, rv, rvReqs, toast>>

\* fetchPages, the store's answer: select('*').order('created_at', desc)
FetchPagesAnswer(r) ==
    /\ r \in mvReqs /\ r.kind = "fetch" /\ r.phase = "sent"
    /\ \E q \in OrderByCreatedAtDesc(SelectPages(mv.user)) :
        mvReqs' = (mvReqs \ {r}) \cup {Answered(r, "ok", q)}
    /\ UNCHANGED <<storeVars, lastRead, mv, pv, pvReqs, rv, rvReqs, toast>>

\* fetchPages after the await: setPages(data || []); finally setLoading(false)
fetchPages(r) ==
    /\ r \in mvReqs /\ r.kind = "fetch" /\ r.phase = "ok"
    /\ mv' = [mv EXCEPT !.pages = r.data, !.loading = FALSE]
    /\ mvReqs' = mvReqs \ {r}
    /\ UNCHANGED <<storeVars, lastRead, pv, pvReqs, rv, rvReqs, toast>>

handleTitleChange(title) ==
    /\ MvRendered /\ mv.showCreateForm
    /\ mv' = [mv EXCEPT !.formData.title = title,
                        !.formData.slug = generateSlug(title)]
    /\ UNCHANGED <<storeVars, lastRead, mvReqs, pv, pvReqs, rv, rvReqs, toast>>

\* onChange of the description and of the slug input
handleFieldChange(field, text) ==
    /\ MvRendered /\ mv.showCreateForm
    /\ mv' = [mv EXCEPT !.formData[field] = text]
    /\ UNCHANGED <<storeVars, lastRead, mvReqs, pv, pvReqs, rv, rvReqs, toast>>

\* "Create Page" toggles the form, "Cancel" closes it, "Create Your First
\* Page" (shown for an empty list) opens it
setShowCreateForm(b) ==
    /\ MvRendered
    /\ \/ b = ~mv.showCreateForm
       \/ b = FALSE /\ mv.showCreateForm
       \/ b = TRUE /\ mv.pages = << >>
    /\ mv' = [mv EXCEPT !.showCreateForm = b]
    /\ UNCHANGED <<storeVars, lastRead, mvReqs, pv, pvReqs, rv, rvReqs, toast>>

\* the row createPage hands to insert(): is_active is left to its default
CreatePageRequest(form, user) ==
    [user_id |-> user, title |-> form.title, description |-> form.description,
     slug |-> form.slug, is_active |-> TRUE]

\* createPage without its title check
createPageNoValidation ==
    /\ MvRendered /\ mv.showCreateForm
    /\ FreeSlots(mvReqs) # {}
    /\ mvReqs' = mvReqs \cup
           {Request(FreeSlot(mvReqs), "create",
                    CreatePageRequest(mv.formData, mv.user))}
    /\ UNCHANGED <<mv, toast>>
    /\ UNCHANGED <<storeVars, lastRead, pv, pvReqs, rv, rvReqs>>

\* createPage up to the await: validation, then the insert is sent
createPage ==
    /\ MvRendered /\ mv.showCreateForm
    /\ IF trim(mv.formData.title) = << >>
       THEN /\ toast' = ToastTitleRequired
            /\ UNCHANGED <<mv, mvReqs>>
       ELSE /\ FreeSlots(mvReqs) # {}
            /\ mvReqs' = mvReqs \cup
                   {Request(FreeSlot(mvReqs), "create",
                            CreatePageRequest(mv.formData, mv.user))}
            /\ UNCHANGED <<mv, toast>>
    /\ UNCHANGED <<storeVars, lastRead, pv, pvReqs, rv, rvReqs>>

\* the store's answer to createPage's insert
CreatePageAnswer(r) ==
    /\ r \in mvReqs /\ r.kind = "create" /\ r.phase = "sent"
    /\ IF InsertPageOk(mv.user, r.req)
       THEN /\ pageSeq < MaxPages
            /\ InsertPage(mv.user, r.req, now + 1)
            /\ mvReqs' = (mvReqs \ {r}) \cup {Answered(r, "ok", << >>)}
       ELSE /\ mvReqs' = (mvReqs \ {r}) \cup {Answered(r, "err", << >>)}
            /\ UNCHANGED storeVars
    /\ UNCHANGED <<lastRead, mv, pv, pvReqs, rv, rvReqs, toast>>

\* createPage after the await: on success reset and close the form and call
\* fetchPages; on error only the notification
createPageDone(r) ==
    /\ r \in mvReqs /\ r.kind = "create" /\ r.phase \in {"ok", "err"}
    /\ IF r.phase = "ok"
       THEN /\ toast' = ToastPageCreated
            /\ mv' = [mv EXCEPT !.formData = EmptyForm,
                                !.showCreateForm = FALSE]
            /\ mvReqs' = (mvReqs \ {r}) \cup {Request(r.n, "fetch", [table |-> "feedback_pages"])}
       ELSE /\ toast' = ToastCreateFailed
            /\ mvReqs' = mvReqs \ {r}
            /\ UNCHANGED mv
    /\ UNCHANGED <<storeVars, lastRead, pv, pvReqs, rv, rvReqs>>

\* --------------------------------- public submission view (PublicFeedback)
ToastEnterFeedback == "Please enter your feedback"
ToastThankYou == "Thank you for your feedback!"
ToastSubmitFailed == "Failed to submit feedback. Please try again."

pvInit ==
    [mounted |-> FALSE, caller |-> Anon, slug |-> << >>, page |-> NoRow,
     loading |-> TRUE, submitting |-> FALSE, message |-> << >>,
     submitted |-> FALSE]

\* which of the four screens the component renders
PvScreen ==
    IF ~pv.mounted THEN "none"
    ELSE IF pv.loading THEN "loading"
    ELSE IF pv.page = NoRow THEN "not-found"
    ELSE IF pv.submitted THEN "thank-you"
    ELSE "form"

\* fetchPage up to the await, for the slug of the route; !slug holds for an
\* undefined and for an empty slug
FetchPageStart(reqs, slug) ==
    IF slug = << >> THEN reqs
    ELSE reqs \cup {Request(FreeSlot(reqs), "fetch", [slug |-> slug])}

\* the component mounts on /feedback/:slug; useEffect calls fetchPage
PvMount(c, slug) ==
    /\ ~pv.mounted
    /\ pv' = [pvInit EXCEPT !.mounted = TRUE, !.caller = c, !.slug = slug,
                            !.loading = (slug # << >>)]
    /\ pvReqs' = FetchPageStart({}, slug)
    /\ UNCHANGED <<storeVars, lastRead, mv, mvReqs, rv, rvReqs, toast>>

\* the route's slug changes under the mounted component: useEffect([slug])
PvRouteChange(slug) ==
    /\ pv.mounted /\ slug # pv.slug
    /\ FreeSlots(pvReqs) # {}
    /\ pv' = [pv EXCEPT !.slug = slug,
                        !.loading = IF slug = << >> THEN FALSE ELSE @]
    /\ pvReqs' = FetchPageStart(pvReqs, slug)
    /\ UNCHANGED <<storeVars, lastRead, mv, mvReqs, rv, rvReqs, toast>>

\* .eq('slug', slug).eq('is_active', true) as caller c
PublicPageRows(c, slug) ==
    {r \in SelectPages(c) : r.slug = slug /\ r.is_active = TRUE}

\* fetchPage, the store's answer: .single() fails unless exactly one row
FetchPageAnswer(r) ==
    /\ r \in pvReqs /\ r.kind = "fetch" /\ r.phase = "sent"
    /\ LET rows == PublicPageRows(pv.caller, r.req.slug) IN
        IF Cardinality(rows) = 1
        THEN pvReqs' = (pvReqs \ {r}) \cup
                 {Answered(r, "ok", <<CHOOSE x \in rows : TRUE>>)}
        ELSE pvReqs' = (pvReqs \ {r}) \cup {Answered(r, "err", << >>)}
    /\ UNCHANGED <<storeVars, lastRead, mv, mvReqs, pv, rv, rvReqs, toast>>

\* fetchPage after the await: setPage(data) on success, the error is only
\* logged; finally setLoading(false)
fetchPage(r) ==
    /\ r \in pvReqs /\ r.kind = "fetch" /\ r.phase \in {"ok", "err"}
    /\ pv' = [pv EXCEPT !.page = IF r.phase = "ok" THEN r.data[1] ELSE @,
                        !.loading = FALSE]
    /\ pvReqs' = pvReqs \ {r}
    /\ UNCHANGED <<storeVars, lastRead, mv, mvReqs, rv, rvReqs, toast>>

\* onChange of the textarea
setMessage(text) ==
    /\ PvScreen = "form"
    /\ text # pv.message
    /\ pv' = [pv EXCEPT !.message = text]
    /\ UNCHANGED <<storeVars, lastRead, mv, mvReqs, pvReqs, rv, rvReqs, toast>>

\* an insert row that also carries the session's user id
SubmitRequestSigned(message, page) ==
    [message |-> trim(message), feedback_page_id |-> page.id,
     user_id |-> auth_uid(pv.caller)]

\* the row submitFeedback hands to insert()
SubmitRequest(message, page) ==
    [message |-> trim(message), feedback_page_id |-> page.id]

\* submitFeedback up to the await. The button is disabled while submitting;
\* the handler's own validation is what rejects a blank message
submitFeedback ==
    /\ PvScreen = "form"
    /\ ~pv.submitting
    /\ IF trim(pv.message) = << >>
       THEN /\ toast' = ToastEnterFeedback
            /\ UNCHANGED <<pv, pvReqs>>
       ELSE /\ FreeSlots(pvReqs) # {}
            /\ pv' = [pv EXCEPT !.submitting = TRUE]
            /\ pvReqs' = pvReqs \cup
                   {Request(FreeSlot(pvReqs), "submit",
                            SubmitRequest(pv.message, pv.page))}
            /\ UNCHANGED toast
    /\ UNCHANGED <<storeVars, lastRead, mv, mvReqs, rv, rvReqs>>

\* the store's answer to submitFeedback's insert, at store time t
SubmitAnswer(r, t) ==
    /\ r \in pvReqs /\ r.kind = "submit" /\ r.phase = "sent"
    /\ IF InsertFeedbackOk(pv.caller, r.req)
       THEN /\ feedbackSeq < MaxFeedback
            /\ InsertFeedback(pv.caller, r.req, t)
            /\ pvReqs' = (pvReqs \ {r}) \cup {Answered(r, "ok", << >>)}
       ELSE /\ pvReqs' = (pvReqs \ {r}) \cup {Answered(r, "err", << >>)}
            /\ UNCHANGED storeVars
    /\ UNCHANGED <<lastRead, mv, mvReqs, pv, rv, rvReqs, toast>>

\* submitFeedback with setSubmitted(true) moved into the finally block
submitFeedbackDoneAlways(r) ==
    /\ r \in pvReqs /\ r.kind = "submit" /\ r.phase \in {"ok", "err"}
    /\ pv' = [pv EXCEPT !.submitted = TRUE, !.submitting = FALSE]
    /\ toast' = IF r.phase = "ok" THEN ToastThankYou ELSE ToastSubmitFailed
    /\ pvReqs' = pvReqs \ {r}
    /\ UNCHANGED <<storeVars, lastRead, mv, mvReqs, rv, rvReqs>>

\* submitFeedback with setSubmitting(false) only on the success path
submitFeedbackDoneNoFinally(r) ==
    /\ r \in pvReqs /\ r.kind = "submit" /\ r.phase \in {"ok", "err"}
    /\ IF r.phase = "ok"
       THEN /\ pv' = [pv EXCEPT !.submitted = TRUE, !.submitting = FALSE]
            /\ toast' = ToastThankYou
       ELSE /\ UNCHANGED pv
            /\ toast' = ToastSubmitFailed
    /\ pvReqs' = pvReqs \ {r}
    /\ UNCHANGED <<storeVars, lastRead, mv, mvReqs, rv, rvReqs>>

\* submitFeedback after the await; finally setSubmitting(false)
submitFeedbackDone(r) ==
    /\ r \in pvReqs /\ r.kind = "submit" /\ r.phase \in {"ok", "err"}
    /\ IF r.phase = "ok"
       THEN /\ pv' = [pv EXCEPT !.submitted = TRUE, !.submitting = FALSE]
            /\ toast' = ToastThankYou
       ELSE /\ pv' = [pv EXCEPT !.submitting = FALSE]
            /\ toast' = ToastSubmitFailed
    /\ pvReqs' = pvReqs \ {r}
    /\ UNCHANGED <<storeVars, lastRead, mv, mvReqs, rv, rvReqs>>

\* "Submit Another Feedback"
submitAnother ==
    /\ PvScreen = "thank-you"
    /\ pv' = [pv EXCEPT !.submitted = FALSE, !.message = << >>]
    /\ UNCHANGED <<storeVars, lastRead, mv, mvReqs, pvReqs, rv, rvReqs, toast>>

\* ------------------------------------- feedback-review view (ViewFeedback)
ToastLoadFeedbackFailed == "Failed to load feedback page"

rvInit ==
    [mounted |-> FALSE, user |-> NULL, pageId |-> NULL, page |-> NoRow,
     feedback |-> << >>, loading |-> TRUE, location |-> NULL]

RvScreen ==
    IF ~rv.mounted THEN "none"
    ELSE IF rv.loading THEN "loading"
    ELSE IF rv.page = NoRow THEN "not-found"
    ELSE "feedback"

\* the component mounts on /pages/:pageId/feedback with the session resolved:
\* without a user the effect navigates to /auth, else fetchPageAndFeedback
RvMount(c, pageId) ==
    /\ ~rv.mounted
    /\ IF auth_uid(c) = NULL
       THEN /\ rv' = [rvInit EXCEPT !.location = "/auth"]
            /\ rvReqs' = {}
       ELSE /\ rv' = [rvInit EXCEPT !.mounted = TRUE, !.user = c,
                                    !.pageId = pageId]
            /\ rvReqs' = {Request(1, "page", [pageId |-> pageId])}
    /\ UNCHANGED <<storeVars, lastRead, mv, mvReqs, pv, pvReqs, toast>>

\* .eq('id', pageId) alone, leaving ownership to the row policies
PageRowsById(c, pageId) == {r \in SelectPages(c) : r.id = pageId}

\* .eq('id', pageId).eq('user_id', user?.id) as the signed-in caller
OwnedPageRows(c, pageId) ==
    {r \in SelectPages(c) : r.id = pageId /\ SqlEq(r.user_id, auth_uid(c))}

\* first await of fetchPageAndFeedback, the store's answer (.single())
OwnedPageAnswer(r) ==
    /\ r \in rvReqs /\ r.kind = "page" /\ r.phase = "sent"
    /\ LET rows == OwnedPageRows(rv.user, r.req.pageId) IN
        IF Cardinality(rows) = 1
        THEN rvReqs' = (rvReqs \ {r}) \cup
                 {Answered(r, "ok", <<CHOOSE x \in rows : TRUE>>)}
        ELSE rvReqs' = (rvReqs \ {r}) \cup {Answered(r, "err", << >>)}
    /\ UNCHANGED <<storeVars, lastRead, mv, mvReqs, pv, pvReqs, rv, toast>>

\* fetchPageAndFeedback after the first await: setPage and the feedback query,
\* or the catch block: notification and navigate('/pages'), which unmounts
\* the view (requests of an unmounted view can no longer change it)
fetchPageAndFeedback(r) ==
    /\ r \in rvReqs /\ r.kind = "page" /\ r.phase \in {"ok", "err"}
    /\ IF r.phase = "ok"
       THEN /\ rv' = [rv EXCEPT !.page = r.data[1]]
            /\ rvReqs' = (rvReqs \ {r}) \cup {Request(r.n, "feedback", r.req)}
            /\ UNCHANGED toast
       ELSE /\ toast' = ToastLoadFeedbackFailed
            /\ rv' = [rv EXCEPT !.mounted = FALSE, !.loading = FALSE,
                                !.location = "/pages"]
            /\ rvReqs' = {}
    /\ UNCHANGED <<storeVars, lastRead, mv, mvReqs, pv, pvReqs>>

\* .eq('feedback_page_id', pageId) as caller c
PageFeedbackRows(c, pageId) ==
    {f \in SelectFeedback(c) : f.feedback_page_id = pageId}

\* second await, the store's answer: .order('created_at', desc)
PageFeedbackAnswer(r) ==
    /\ r \in rvReqs /\ r.kind = "feedback" /\ r.phase = "sent"
    /\ \E q \in OrderByCreatedAtDesc(PageFeedbackRows(rv.user, r.req.pageId)) :
        rvReqs' = (rvReqs \ {r}) \cup {Answered(r, "ok", q)}
    /\ UNCHANGED <<storeVars, lastRead, mv, mvReqs, pv, pvReqs, rv, toast>>

\* after the second await: setFeedback(feedbackData || []); finally
\* setLoading(false)
fetchFeedbackDone(r) ==
    /\ r \in rvReqs /\ r.kind = "feedback" /\ r.phase = "ok"
    /\ rv' = [rv EXCEPT !.feedback = r.data, !.loading = FALSE]
    /\ rvReqs' = rvReqs \ {r}
    /\ UNCHANGED <<storeVars, lastRead, mv, mvReqs, pv, pvReqs, toast>>

\* "Anonymous Feedback #{feedback.length - index}" (index is zero-based)
OrdinalLabel(list, index) == Len(list) - index

Init ==
    /\ feedback_pages = {}
    /\ feedback = {}
    /\ now = 0
    /\ pageSeq = 0
    /\ feedbackSeq = 0
    /\ lastRead = NoRead
    /\ mv = mvInit
    /\ mvReqs = {}
    /\ pv = pvInit
    /\ pvReqs = {}
    /\ rv = rvInit
    /\ rvReqs = {}
    /\ toast = NULL

\* ---------------------------------- the store and its direct callers alone
NextStore ==
    \/ StoreInsertPage
    \/ StoreUpdatePage
    \/ StoreDeletePage
    \/ StoreInsertFeedback
    \/ StoreSelectPages
    \/ StoreSelectFeedback

SpecStore == Init /\ [][NextStore]_vars

\* ------------------------------ what the other clients of the store do
\* while a view is open: owners create, (de)activate and delete their pages,
\* visitors leave feedback
OthersInsertPage(c) ==
    \E s \in Slugs, b \in BOOLEAN :
        /\ pageSeq < MaxPages
        /\ InsertPage(c, [user_id |-> c, title |-> <<"A">>,
                          description |-> << >>, slug |-> s, is_active |-> b],
                      now + 1)
        /\ UNCHANGED <<lastRead, mv, mvReqs, pv, pvReqs, rv, rvReqs, toast>>

OthersSetActive ==
    \E old \in feedback_pages, b \in BOOLEAN :
        /\ UpdatePage(old.user_id, old, [old EXCEPT !.is_active = b])
        /\ UNCHANGED <<lastRead, mv, mvReqs, pv, pvReqs, rv, rvReqs, toast>>

OthersDeletePage ==
    \E old \in feedback_pages :
        /\ DeletePage(old.user_id, old)
        /\ UNCHANGED <<lastRead, mv, mvReqs, pv, pvReqs, rv, rvReqs, toast>>

OthersInsertFeedback(t) ==
    \E id \in PageIds :
        /\ feedbackSeq < MaxFeedback
        /\ InsertFeedback(Anon, [message |-> <<"m">>, feedback_page_id |-> id], t)
        /\ UNCHANGED <<lastRead, mv, mvReqs, pv, pvReqs, rv, rvReqs, toast>>

\* ------------------------ the page-management view of u1 and other clients
NextManage ==
    \/ \E c \in {"u1"} : MvMount(c)
    \/ \E r \in mvReqs : FetchPagesAnswer(r)
    \/ \E r \in mvReqs : fetchPages(r)
    \/ \E title \in Titles : handleTitleChange(title)
    \/ \E text \in {<<"b">>} : handleFieldChange("slug", text)
    \/ \E b \in BOOLEAN : setShowCreateForm(b)
    \/ createPage
    \/ \E r \in mvReqs : CreatePageAnswer(r)
    \/ \E r \in mvReqs : createPageDone(r)
    \/ \E c \in {"u2"} : OthersInsertPage(c)
    \/ OthersSetActive
    \/ OthersDeletePage

SpecManage == Init /\ [][NextManage]_vars

\* --------------------- the public submission view and the owner of the pages
NextPublic ==
    \/ \E c \in {Anon}, slug \in Slugs : PvMount(c, slug)
    \/ \E slug \in Slugs : PvRouteChange(slug)
    \/ \E r \in pvReqs : FetchPageAnswer(r)
    \/ \E r \in pvReqs : fetchPage(r)
    \/ \E text \in Messages : setMessage(text)
    \/ submitFeedback
    \/ \E r \in pvReqs : SubmitAnswer(r, now + 1)
    \/ \E r \in pvReqs : submitFeedbackDone(r)
    \/ submitAnother
    \/ \E c \in {"u1"} : OthersInsertPage(c)
    \/ OthersSetActive
    \/ OthersDeletePage

SpecPublic == Init /\ [][NextPublic]_vars

\* ------------------------------ the feedback-review view and other clients
NextReview ==
    \/ \E c \in Callers, pageId \in PageIds : RvMount(c, pageId)
    \/ \E r \in rvReqs : OwnedPageAnswer(r)
    \/ \E r \in rvReqs : fetchPageAndFeedback(r)
    \/ \E r \in rvReqs : PageFeedbackAnswer(r)
    \/ \E r \in rvReqs : fetchFeedbackDone(r)
    \/ \E c \in Users : OthersInsertPage(c)
    \/ OthersSetActive
    \/ OthersDeletePage
    \/ \E t \in {now, now + 1} : OthersInsertFeedback(t)

SpecReview == Init /\ [][NextReview]_vars

\* ---- a visitor submits on the public view, the owner opens the review
\* view after a submit has succeeded
NextRoundTrip ==
    \/ \E c \in {Anon}, slug \in {<<"a">>} : PvMount(c, slug)
    \/ \E r \in pvReqs : FetchPageAnswer(r)
    \/ \E r \in pvReqs : fetchPage(r)
    \/ \E text \in {<<" ", "m">>} : setMessage(text)
    \/ submitFeedback
    \/ \E r \in pvReqs : SubmitAnswer(r, now + 1)
    \/ \E r \in pvReqs : submitFeedbackDone(r)
    \/ submitAnother
    \/ \E c \in {"u1"}, pageId \in PageIds :
          feedbackSeq > 0 /\ RvMount(c, pageId)
    \/ \E r \in rvReqs : OwnedPageAnswer(r)
    \/ \E r \in rvReqs : fetchPageAndFeedback(r)
    \/ \E r \in rvReqs : PageFeedbackAnswer(r)
    \/ \E r \in rvReqs : fetchFeedbackDone(r)
    \/ \E c \in {"u1"} : OthersInsertPage(c)
    \/ OthersSetActive
    \/ OthersDeletePage

SpecRoundTrip == Init /\ [][NextRoundTrip]_vars

\* ---- the owner's create form and the visitor's form, and a second owner
NextForms ==
    \/ \E c \in {"u1"} : MvMount(c)
    \/ \E r \in mvReqs : FetchPagesAnswer(r)
    \/ \E r \in mvReqs : fetchPages(r)
    \/ \E title \in Titles : handleTitleChange(title)
    \/ \E b \in BOOLEAN : setShowCreateForm(b)
    \/ createPage
    \/ \E r \in mvReqs : CreatePageAnswer(r)
    \/ \E r \in mvReqs : createPageDone(r)
    \/ \E c \in {Anon}, slug \in {<<"a">>} : PvMount(c, slug)
    \/ \E r \in pvReqs : FetchPageAnswer(r)
    \/ \E r \in pvReqs : fetchPage(r)
    \/ \E text \in Messages : setMessage(text)
    \/ submitFeedback
    \/ \E r \in pvReqs : SubmitAnswer(r, now + 1)
    \/ \E r \in pvReqs : submitFeedbackDone(r)
    \/ submitAnother
    \/ \E c \in {"u2"} : OthersInsertPage(c)

SpecForms == Init /\ [][NextForms]_vars

\* ---- the public submission view opened by any caller on one slug, and the
\* owner of the page; a submit is started while the store can still take it
NextSubmit ==
    \/ \E c \in Callers, slug \in {<<"a">>} : PvMount(c, slug)
    \/ \E r \in pvReqs : FetchPageAnswer(r)
    \/ \E r \in pvReqs : fetchPage(r)
    \/ \E text \in Messages : setMessage(text)
    \/ feedbackSeq < MaxFeedback /\ submitFeedback
    \/ \E r \in pvReqs : SubmitAnswer(r, now + 1)
    \/ \E r \in pvReqs : submitFeedbackDone(r)
    \/ submitAnother
    \/ \E c \in {"u1"} : OthersInsertPage(c)
    \/ OthersSetActive
    \/ OthersDeletePage

SpecSubmit == Init /\ [][NextSubmit]_vars

\* the store eventually answers each insert, and the code after the await
\* eventually runs
SpecSubmitFair ==
    /\ Init /\ [][NextSubmit]_vars
    /\ WF_vars(\E r \in pvReqs : SubmitAnswer(r, now + 1))
    /\ WF_vars(\E r \in pvReqs : submitFeedbackDone(r))

\* ----------------------------------------- slug derivation on every title
Alphabet == {"a", "B", "1", " ", "-", "!"}

AllTitles == UNION {[1..n -> Alphabet] : n \in 0..MaxLen}

\* the create form is open in a loaded page-management view
InitSlug ==
    /\ feedback_pages = {}
    /\ feedback = {}
    /\ now = 0
    /\ pageSeq = 0
    /\ feedbackSeq = 0
    /\ lastRead = NoRead
    /\ mv = [mvInit EXCEPT !.mounted = TRUE, !.user = "u1", !.loading = FALSE,
                           !.showCreateForm = TRUE]
    /\ mvReqs = {}
    /\ pv = pvInit
    /\ pvReqs = {}
    /\ rv = rvInit
    /\ rvReqs = {}
    /\ toast = NULL

NextSlug == \E title \in AllTitles : handleTitleChange(title)

SpecSlug == InitSlug /\ [][NextSlug]_vars

\* =================================================================== claims
PageOf(f) == {p \in feedback_pages : p.id = f.feedback_page_id}
PageOfNext(f) == {p \in feedback_pages' : p.id = f.feedback_page_id}

\* a request of the set reqs that this step answers or delivers
Leaves(r, reqs, reqsNext) == r \in reqs /\ r \notin reqsNext

\* C1: no authenticated caller A is ever given a FeedbackPage owned by
\* another caller, whatever its active flag: neither by a SELECT issued by A
\* nor in the list the page-management view fetched for A
C1_OnlyOwnPagesReturned ==
    /\ \A a \in Users : \A r \in SelectPages(a) : r.user_id = a
    /\ \A i \in DOMAIN mv.pages : mv.pages[i].user_id = mv.user

\* C1, the part the row policies do enforce: a caller's UPDATE or DELETE
\* changes or removes only rows the caller owns
OnlyOwnPagesWritten ==
    [][\A c \in Callers, old \in feedback_pages, new \in feedback_pages' :
          (UpdatePage(c, old, new) \/ DeletePage(c, old)) => old.user_id = c]_vars

\* C2 as claimed: a SELECT on feedback returns rows of page P only to the
\* authenticated caller who owns P
C2_FeedbackReadByOwnerOnly ==
    lastRead.table = "feedback" =>
        \A f \in lastRead.rows : \E p \in PageOf(f) :
            SqlEq(p.user_id, auth_uid(lastRead.caller))

\* C2 amended: a SELECT on feedback returns to every caller alike (anonymous,
\* non-owner, owner) exactly the rows whose page is active at the read
C2_FeedbackReadOfActivePages ==
    lastRead.table = "feedback" =>
        lastRead.rows = {f \in feedback : \E p \in PageOf(f) : p.is_active}

C2_Witness ==
    /\ lastRead.table = "feedback"
    /\ lastRead.caller = Anon
    /\ lastRead.rows # {}
    /\ \E f \in feedback : \E p \in PageOf(f) :
           p.user_id = "u1" /\ ~p.is_active

\* C3: a feedback insert adds a row only for a page that exists and is active
\* at the insert (so never for a missing or unknown page reference), and an
\* anonymous SELECT on feedback returns only rows whose page is active then
C3_FeedbackGatedByActive ==
    [][/\ \A f \in feedback' \ feedback : \E p \in PageOf(f) : p.is_active
       /\ (lastRead'.table = "feedback" /\ lastRead'.caller = Anon) =>
              \A f \in lastRead'.rows : \E p \in PageOfNext(f) : p.is_active
      ]_vars

C3_Witness ==
    /\ lastRead.table = "feedback"
    /\ lastRead.caller = Anon
    /\ \E f \in feedback :
           /\ f \notin lastRead.rows
           /\ \E p \in PageOf(f) : ~p.is_active
    /\ feedbackSeq = MaxFeedback

\* C4: slugs are unique among all feedback_pages rows; a createPage whose
\* slug is taken when the store handles it is rejected and changes no row,
\* and its delivery raises the error notification and leaves the view as it
\* was, rendered and usable
SlugsUnique ==
    \A p, q \in feedback_pages : p.slug = q.slug => p.id = q.id

C4_DuplicateSlugRejected ==
    [][/\ SlugsUnique'
       /\ \A r \in mvReqs :
            (/\ Leaves(r, mvReqs, mvReqs')
             /\ r.kind = "create" /\ r.phase = "sent"
             /\ \E p \in feedback_pages : p.slug = r.req.slug)
            => /\ feedback_pages' = feedback_pages
               /\ feedback' = feedback
               /\ Answered(r, "err", << >>) \in mvReqs'
       /\ \A r \in mvReqs :
            (/\ Leaves(r, mvReqs, mvReqs')
             /\ r.kind = "create" /\ r.phase = "err")
            => /\ toast' = ToastCreateFailed
               /\ mv' = mv
               /\ mv'.mounted /\ ~mv'.loading
               /\ UNCHANGED storeVars
      ]_vars

\* a rejected duplicate has been delivered: the other owner holds the slug,
\* there is feedback in the store, and the form is still open with its data
C4_Witness ==
    /\ toast = ToastCreateFailed
    /\ mv.showCreateForm /\ mv.formData.slug = <<"a">>
    /\ \E p \in feedback_pages : p.slug = <<"a">> /\ p.user_id = "u2"
    /\ feedback # {}

\* C5: when the store answers the review view's feedback query for a page
\* that has received exactly one successful submit (of " m", the only one so
\* far), the answer is exactly one entry, its text is the trimmed message
\* and it has no column for a submitter
C5_RoundTrip ==
    [][\A r \in rvReqs :
          (/\ Leaves(r, rvReqs, rvReqs')
           /\ r.kind = "feedback" /\ r.phase = "sent"
           /\ feedbackSeq = 1
           /\ \E f \in feedback : f.feedback_page_id = r.req.pageId)
          => \E a \in rvReqs' :
                /\ a.n = r.n /\ a.phase = "ok"
                /\ Len(a.data) = 1
                /\ a.data[1].message = <<"m">>
                /\ DOMAIN a.data[1] =
                       {"id", "message", "feedback_page_id", "created_at"}
      ]_vars

\* C6: when the fetch for the slug now in the route is delivered and the
\* store had found no active page with that slug, the view shows not-found
C6_NotFoundShown ==
    [][\A r \in pvReqs :
          (/\ Leaves(r, pvReqs, pvReqs')
           /\ r.kind = "fetch" /\ r.phase = "err"
           /\ r.req.slug = pv.slug)
          => PvScreen' = "not-found"
      ]_vars

\* the store rejects this submit now: its page is missing or inactive
RejectedNow(r) ==
    /\ Leaves(r, pvReqs, pvReqs')
    /\ r.kind = "submit" /\ r.phase = "sent"
    /\ ~ \E p \in feedback_pages : p.id = r.req.feedback_page_id /\ p.is_active

RejectionDelivered(r) ==
    /\ Leaves(r, pvReqs, pvReqs')
    /\ r.kind = "submit" /\ r.phase = "err"

\* C7 as claimed: a submit whose page is missing or inactive when the store
\* handles it creates no row and ends in the not-found state
C7_RejectedSubmitShowsNotFound ==
    [][/\ \A r \in pvReqs : RejectedNow(r) => feedback' = feedback
       /\ \A r \in pvReqs : RejectionDelivered(r) => PvScreen' = "not-found"
      ]_vars

\* C7 amended: such a submit creates no row; the caller gets the generic
\* retryable error notification and the view stays on the form, message kept
C7_RejectedSubmitShowsError ==
    [][/\ \A r \in pvReqs :
            RejectedNow(r) => /\ feedback' = feedback
                              /\ Answered(r, "err", << >>) \in pvReqs'
       /\ \A r \in pvReqs :
            RejectionDelivered(r) => /\ toast' = ToastSubmitFailed
                                     /\ PvScreen' = "form"
                                     /\ pv'.message = pv.message
                                     /\ pv'.page = pv.page
                                     /\ UNCHANGED storeVars
      ]_vars

\* the owner deleted the page after the view had loaded it, and the
\* rejection of the submit has been delivered
C7_Witness ==
    /\ toast = ToastSubmitFailed
    /\ PvScreen = "form"
    /\ pv.page.id \notin {p.id : p \in feedback_pages}
    /\ feedback = {}
    /\ pvReqs = {}

\* C8: the review view holds only a page its caller owns and only feedback
\* of that page; a feedback query is in flight only after the owned-page
\* fetch succeeded; for a page id that names no page of the caller the
\* store answers no row, and the delivery raises the error notification and
\* navigates to /pages with nothing of the page displayed
RvShowsOnlyOwned ==
    /\ rv.page # NoRow => rv.page.user_id = rv.user /\ rv.page.id = rv.pageId
    /\ \A i \in DOMAIN rv.feedback :
           rv.page # NoRow /\ rv.feedback[i].feedback_page_id = rv.page.id
    /\ \A r \in rvReqs :
           r.kind = "feedback" => rv.page # NoRow /\ rv.page.id = r.req.pageId

C8_NotOwnedIsNotFound ==
    [][/\ RvShowsOnlyOwned'
       /\ \A r \in rvReqs :
            (/\ Leaves(r, rvReqs, rvReqs')
             /\ r.kind = "page" /\ r.phase = "sent"
             /\ ~ \E p \in feedback_pages :
                    p.id = r.req.pageId /\ p.user_id = rv.user)
            => Answered(r, "err", << >>) \in rvReqs'
       /\ \A r \in rvReqs :
            (/\ Leaves(r, rvReqs, rvReqs')
             /\ r.kind = "page" /\ r.phase = "err")
            => /\ toast' = ToastLoadFeedbackFailed
               /\ rv'.location = "/pages"
               /\ ~rv'.mounted
               /\ rv'.page = NoRow /\ rv'.feedback = << >>
               /\ rvReqs' = {}
      ]_vars

\* the route named an active page of the other owner, with feedback on it
C8_Witness ==
    /\ rv.location = "/pages"
    /\ toast = ToastLoadFeedbackFailed
    /\ \E p \in feedback_pages :
          /\ p.id = rv.pageId /\ p.user_id # rv.user /\ p.is_active
          /\ \E f \in feedback : f.feedback_page_id = p.id

\* C9: a createPage with a blank title and a submitFeedback with a blank
\* message send no request, change no row and nothing of either view, and
\* raise their error notification
C9_BlankInputStaysLocal ==
    [][/\ (createPage /\ trim(mv.formData.title) = << >>)
            => /\ toast' = ToastTitleRequired
               /\ UNCHANGED <<storeVars, mv, mvReqs, pv, pvReqs>>
       /\ (submitFeedback /\ trim(pv.message) = << >>)
            => /\ toast' = ToastEnterFeedback
               /\ UNCHANGED <<storeVars, mv, mvReqs, pv, pvReqs>>
       /\ \A r \in mvReqs' : r.kind = "create" => trim(r.req.title) # << >>
       /\ \A r \in pvReqs' : r.kind = "submit" => r.req.message # << >>
       /\ \A p \in feedback_pages' : trim(p.title) # << >>
       /\ \A f \in feedback' : f.message # << >>
      ]_vars

\* both notifications can be raised with the typed blank text still in place
C9_Witness ==
    /\ toast = ToastTitleRequired
    /\ mv.showCreateForm /\ mv.formData.title = <<" ">>
    /\ PvScreen = "form" /\ pv.message = <<" ">>
    /\ mvReqs = {} /\ pvReqs = {}

\* the slug the words of the specification describe: the result has no
\* leading or trailing separator
RECURSIVE TrimSeparators(_)
TrimSeparators(s) ==
    IF s # << >> /\ (Head(s) = "-" \/ IsSpace(Head(s)))
    THEN TrimSeparators(Tail(s))
    ELSE IF s # << >> /\ (s[Len(s)] = "-" \/ IsSpace(s[Len(s)]))
    THEN TrimSeparators(SubSeq(s, 1, Len(s) - 1))
    ELSE s

ReferenceSlug(title) ==
    TrimSeparators(CollapseHyphens(SpacesToHyphen(StripOther(toLowerCase(title)))))

\* C10: the slug derived for every title is the reference result
C10_SlugIsReference == mv.formData.slug = ReferenceSlug(mv.formData.title)

\* C11: the slug the handler derived for a title is what a second call with
\* the same title gives, and deriving a slug from that slug gives it back
C11_SlugIdempotent ==
    /\ mv.formData.slug = generateSlug(mv.formData.title)
    /\ generateSlug(mv.formData.slug) = mv.formData.slug

\* a title with a capital, a whitespace run and a hyphen next to it
C11_Witness ==
    /\ mv.formData.title = <<"B", " ", "-">>
    /\ mv.formData.slug = <<"b", "-">>

\* C12: every feedback row references an existing page; a step that deletes
\* a page removes that page alone, removes exactly the feedback rows that
\* reference it, and leaves a store in which every authenticated caller's
\* insert of a page with the deleted page's slug is accepted
C12_DeleteCascadesAndFreesSlug ==
    [][/\ \A f \in feedback' : PageOfNext(f) # {}
       /\ \A old \in feedback_pages :
            (\A p \in feedback_pages' : p.id # old.id)
            => /\ feedback_pages' = feedback_pages \ {old}
               /\ feedback' = {f \in feedback : f.feedback_page_id # old.id}
               /\ \A c \in Users :
                    InsertPageOk(c, [user_id |-> c, title |-> old.title,
                                     description |-> old.description,
                                     slug |-> old.slug,
                                     is_active |-> TRUE])'
      ]_vars

\* the first page was deleted with its feedback row; the feedback row of the
\* second page is still there
C12_Witness ==
    /\ pageSeq = 2 /\ feedbackSeq = 2
    /\ {p.id : p \in feedback_pages} = {PageUuid(2)}
    /\ {f.feedback_page_id : f \in feedback} = {PageUuid(2)}

\* C13: the row a submit hands to the store is made of the typed message and
\* the resolved page alone; when the store handles it, every caller's insert
\* of that row would be accepted or refused alike and would take the store to
\* the same state, and the new feedback row has no column for a submitter
C13_SubmitterAnonymity ==
    [][/\ \A r \in pvReqs' \ pvReqs :
            (r.kind = "submit" /\ r.phase = "sent") =>
                r.req = [message |-> trim(pv.message),
                         feedback_page_id |-> pv.page.id]
       /\ \A r \in pvReqs :
            (/\ Leaves(r, pvReqs, pvReqs')
             /\ r.kind = "submit" /\ r.phase = "sent")
            => /\ \A c \in Callers :
                     InsertFeedbackOk(c, r.req) = InsertFeedbackOk(pv.caller, r.req)
               /\ \A c \in Callers :
                     InsertFeedbackOk(c, r.req) => InsertFeedback(c, r.req, now')
               /\ \A f \in feedback' \ feedback :
                     DOMAIN f = {"id", "message", "feedback_page_id", "created_at"}
      ]_vars

\* a signed-in caller who does not own the page has submitted
C13_Witness ==
    /\ pv.caller = "u2" /\ pv.submitted
    /\ \E f \in feedback :
          /\ f.message = <<"m">>
          /\ \E p \in PageOf(f) : p.user_id = "u1"

\* C14: no answer of the store to an anonymous caller has an id column:
\* neither the answer to the public view's page fetch nor the rows the
\* policies let an anonymous SELECT return
C14_NoInternalIdToAnon ==
    /\ pv.caller = Anon =>
          \A r \in pvReqs :
              (r.kind = "fetch" /\ r.phase = "ok") => "id" \notin DOMAIN r.data[1]
    /\ \A row \in SelectPages(Anon) : "id" \notin DOMAIN row
    /\ \A row \in SelectFeedback(Anon) : "id" \notin DOMAIN row

\* C15 as claimed: the displayed entries are in strictly descending order of
\* creation time
C15_StrictlyDescending ==
    \A i, k \in DOMAIN rv.feedback :
        i < k => rv.feedback[i].created_at > rv.feedback[k].created_at

\* C15 amended: no displayed entry stands above a more recent one (entries of
\* equal creation time in either order), no entry is displayed twice, the
\* first entry is labelled N, the last 1, and the labels are exactly 1..N
C15_NewestFirstLabelled ==
    LET N == Len(rv.feedback) IN
    /\ \A i, k \in 1..N :
          i < k => /\ rv.feedback[i].created_at >= rv.feedback[k].created_at
                   /\ rv.feedback[i].id # rv.feedback[k].id
                   /\ OrdinalLabel(rv.feedback, i - 1) >
                          OrdinalLabel(rv.feedback, k - 1)
    /\ N > 0 => /\ OrdinalLabel(rv.feedback, 0) = N
                /\ OrdinalLabel(rv.feedback, N - 1) = 1
    /\ {OrdinalLabel(rv.feedback, i) : i \in 0..(N - 1)} = 1..N

\* two entries of equal creation time are displayed
C15_Witness ==
    /\ RvScreen = "feedback"
    /\ Len(rv.feedback) = 2
    /\ rv.feedback[1].created_at = rv.feedback[2].created_at

\* C16: once the page-management view has no request outstanding, its list
\* holds every page of its caller that is in the store
C16_ListHasAllCreated ==
    (mv.mounted /\ ~mv.loading /\ mvReqs = {}) =>
        \A p \in feedback_pages :
            p.user_id = mv.user => \E i \in DOMAIN mv.pages : mv.pages[i].id = p.id

\* C17: every started submit reaches submitting = false; the delivery of a
\* rejection leaves the view on the form, not submitted, not submitting, the
\* message and the page kept, the store untouched, no submit in flight and
\* a request slot free for the next submit; the store adds no row for a
\* rejected submit; leaving the confirmation clears the message, keeps the
\* page, and sends nothing
C17_FailureIsRecoverable ==
    /\ [][/\ \A r \in pvReqs : RejectedNow(r) => feedback' = feedback
          /\ \A r \in pvReqs :
               RejectionDelivered(r)
               => /\ PvScreen' = "form"
                  /\ ~pv'.submitted /\ ~pv'.submitting
                  /\ pv'.message = pv.message
                  /\ pv'.page = pv.page
                  /\ UNCHANGED storeVars
                  /\ \A q \in pvReqs' : q.kind # "submit"
                  /\ FreeSlots(pvReqs') # {}
          /\ (pv.submitted /\ ~pv'.submitted)
               => /\ pv'.message = << >>
                  /\ pv'.page = pv.page
                  /\ PvScreen' = "form"
                  /\ pvReqs' = pvReqs
                  /\ UNCHANGED storeVars
         ]_vars
    /\ (pv.submitting ~> ~pv.submitting)

\* after a delivered rejection the caller has sent the same message again
C17_Witness ==
    /\ toast = ToastSubmitFailed
    /\ pv.submitting
    /\ pv.message = <<" ", "m">>
    /\ \E r \in pvReqs : r.kind = "submit" /\ r.phase = "sent"
    /\ feedback = {}

====
